---- MODULE Spec2Model ----
(***************************************************************************)
(* Task records, their dictionary codec, the JSON file handler and the     *)
(* TaskManager of src/Task.py, as a state machine.                         *)
(*                                                                         *)
(* Python values are represented as follows.                               *)
(*   str                  a TLA+ string, except the two date strings,      *)
(*                        which are sequences of one-character strings so  *)
(*                        that formatting and parsing are computed         *)
(*   datetime.date        <<year, month, day>>                             *)
(*   None / int           <<>> / <<n>>                                     *)
(*   dict                 a record (a function on its keys)                *)
(*   list                 a sequence                                       *)
(*   a call's outcome     Ok(value returned) or Raise(exception name)      *)
(***************************************************************************)
EXTENDS Integers, Sequences, FiniteSets, TLC

\* ------------------------------------------------------------------ bounds

MaxTasks == 2
MaxFaults == 1

\* ----------------------------------------------------------- input domains

None == <<>>

Sessions == {1, 2}

Names == {"a", "b"}

StatusOptions == {"Pending", "In-Progress", "Complete"}

\* The days date.today() returns as the clock advances.
Days == <<<<2025, 2, 28>>, <<2025, 3, 1>>>>

DueDates == {<<2025, 3, 1>>, <<2026, 12, 31>>}

Reminders == {None, <<0>>, <<12>>}

\* ------------------------------------------------------------------- dates

Digits == <<"0", "1", "2", "3", "4", "5", "6", "7", "8", "9">>

DigitVal(c) == CHOOSE n \in 0..9 : Digits[n + 1] = c

IsDigit(c) == \E n \in 0..9 : Digits[n + 1] = c

\* %Y of a four-digit year, %m and %d: zero-padded decimal.
RECURSIVE Pad(_, _)
Pad(n, width) ==
    IF width = 0 THEN <<>>
    ELSE Pad(n \div 10, width - 1) \o <<Digits[(n % 10) + 1]>>

strftime(d) == Pad(d[1], 4) \o <<"-">> \o Pad(d[2], 2) \o <<"-">> \o Pad(d[3], 2)

RECURSIVE Num(_)
Num(s) == IF s = <<>> THEN 0
          ELSE 10 * Num(SubSeq(s, 1, Len(s) - 1)) + DigitVal(s[Len(s)])

IsLeap(y) == (y % 4 = 0 /\ y % 100 # 0) \/ y % 400 = 0

DaysInMonth(y, m) ==
    IF m = 2 THEN (IF IsLeap(y) THEN 29 ELSE 28)
    ELSE IF m \in {4, 6, 9, 11} THEN 30 ELSE 31

\* The outcome of a call: the value returned, or the exception raised.
Ok(v) == [ok |-> TRUE, val |-> v]

Raise(e) == [ok |-> FALSE, exc |-> e]

\* date.fromisoformat of a YYYY-MM-DD string; anything else raises ValueError.
fromisoformat(s) ==
    IF /\ Len(s) = 10
       /\ s[5] = "-" /\ s[8] = "-"
       /\ \A i \in {1, 2, 3, 4, 6, 7, 9, 10} : IsDigit(s[i])
    THEN LET y == Num(SubSeq(s, 1, 4))
             m == Num(SubSeq(s, 6, 7))
             d == Num(SubSeq(s, 9, 10))
         IN  IF y >= 1 /\ m \in 1..12 /\ d >= 1 /\ d <= DaysInMonth(y, m)
             THEN Ok(<<y, m, d>>) ELSE Raise("ValueError")
    ELSE Raise("ValueError")

\* ------------------------------------------------------------ task records

\* Task.__init__: created_date is the day of construction, as a string.
Task(name, description, status, due_date, reminder_duration, now) ==
    [cls |-> "Task", name |-> name, description |-> description,
     status |-> status, due_date |-> due_date,
     reminder_duration |-> reminder_duration,
     created_date |-> strftime(Days[now])]

WorkTask(name, description, status, due_date, priority, reminder_duration, now) ==
    [cls |-> "WorkTask", name |-> name, description |-> description,
     status |-> status, due_date |-> due_date,
     reminder_duration |-> reminder_duration,
     created_date |-> strftime(Days[now]), priority |-> priority]

PersonalTask(name, description, status, due_date, category, reminder_duration, now) ==
    [cls |-> "PersonalTask", name |-> name, description |-> description,
     status |-> status, due_date |-> due_date,
     reminder_duration |-> reminder_duration,
     created_date |-> strftime(Days[now]), category |-> category]

BaseDict(t) ==
    [type |-> "Task", name |-> t.name, description |-> t.description,
     status |-> t.status, due_date |-> strftime(t.due_date),
     reminder_duration |-> t.reminder_duration,
     created_date |-> t.created_date]

\* d with d[k] = v added or replaced (data[k] = v on a dict).
SetKey(d, k, v) ==
    [x \in DOMAIN d \cup {k} |-> IF x = k THEN v ELSE d[x]]

\* to_dict of the object's class.
to_dict(t) ==
    IF t.cls = "WorkTask"
    THEN SetKey(SetKey(BaseDict(t), "priority", t.priority), "type", "WorkTask")
    ELSE IF t.cls = "PersonalTask"
    THEN SetKey(SetKey(BaseDict(t), "category", t.category), "type", "PersonalTask")
    ELSE BaseDict(t)

\* task_dict.get(k, default)
Get(d, k, default) == IF k \in DOMAIN d THEN d[k] ELSE default

RequiredKeys(task_type) ==
    {"name", "description", "status"}
        \cup (IF task_type = "WorkTask" THEN {"priority"}
              ELSE IF task_type = "PersonalTask" THEN {"category"} ELSE {})

\* create_task_from_dict, run on day `now`: the task, or the exception raised.
create_task_from_dict(task_dict, now) ==
    LET task_type == Get(task_dict, "type", "Task")
    IN  IF "due_date" \notin DOMAIN task_dict THEN Raise("KeyError")
        ELSE LET due_date == fromisoformat(task_dict.due_date)
             IN  IF ~due_date.ok THEN due_date
                 ELSE IF ~(RequiredKeys(task_type) \subseteq DOMAIN task_dict)
                 THEN Raise("KeyError")
                 ELSE IF task_type = "WorkTask"
                 THEN Ok(WorkTask(task_dict.name, task_dict.description,
                                  task_dict.status, due_date.val, task_dict.priority,
                                  Get(task_dict, "reminder_duration", None), now))
                 ELSE IF task_type = "PersonalTask"
                 THEN Ok(PersonalTask(task_dict.name, task_dict.description,
                                      task_dict.status, due_date.val, task_dict.category,
                                      Get(task_dict, "reminder_duration", None), now))
                 ELSE Ok(Task(task_dict.name, task_dict.description,
                              task_dict.status, due_date.val,
                              Get(task_dict, "reminder_duration", None), now))

\* ------------------------------------------------------------ the JSON file

\* json.dump(data, f, indent=4) of a list of flat dicts: the length of the text.
NumLen(n) == IF n < 10 THEN 1 ELSE IF n < 100 THEN 2 ELSE 3

ValueLen(k, v) ==
    IF k = "reminder_duration" THEN (IF v = None THEN 4 ELSE NumLen(v[1]))
    ELSE Len(v) + 2

RECURSIVE SumOver(_, _)
SumOver(d, keys) ==
    IF keys = {} THEN 0
    ELSE LET k == CHOOSE x \in keys : TRUE
         IN  8 + (Len(k) + 2) + 2 + ValueLen(k, d[k]) + 2 + SumOver(d, keys \ {k})

\* "    {\n", the items joined by ",\n", "\n    }"
DictLen(d) == 6 + (SumOver(d, DOMAIN d) - 2) + 6

RECURSIVE ListLen(_)
ListLen(data) ==
    IF data = <<>> THEN 0 ELSE DictLen(Head(data)) + 2 + ListLen(Tail(data))

\* "[]" for the empty list, else "[\n", the dicts joined by ",\n", "\n]".
JsonLen(data) == IF data = <<>> THEN 2 ELSE 2 + (ListLen(data) - 2) + 2

\* The storage file: absent, or a text of `len` characters which is the JSON
\* of `docs` when `json` holds and no JSON document at all otherwise.
NoFile == [exists |-> FALSE, json |-> FALSE, docs |-> <<>>, len |-> 0]

Text(data) == [exists |-> TRUE, json |-> TRUE, docs |-> data, len |-> JsonLen(data)]

Unparseable(n) == [exists |-> TRUE, json |-> FALSE, docs |-> <<>>, len |-> n]

\* open(filename, 'w'): the file is created or truncated to nothing.
OpenW(f) == Unparseable(0)

\* A faulty variant: the text is buffered and never reaches the file (no flush or close).
WriteClose_noflush(f, data) == f

\* The handle opened by open(filename, 'w') writes its text from offset 0 when
\* it is closed: over an empty file that is the text; over a text another
\* handle has written since, the longer tail of that text stays behind it.
WriteClose(f, data) ==
    IF f.len <= JsonLen(data) THEN Text(data) ELSE Unparseable(f.len)

\* A write that stops after k characters of the text of `data`.
WritePart(f, data, k) ==
    IF k = 0 THEN f
    ELSE Unparseable(IF f.len <= k THEN k ELSE f.len)

\* open(filename, 'r') and json.load(f): the list stored, or what is raised.
json_load(f) ==
    IF ~f.exists THEN Raise("FileNotFoundError")
    ELSE IF ~f.json THEN Raise("JSONDecodeError")
    ELSE Ok(f.docs)

\* A faulty variant: load_data without its try/except.
load_data_nocatch(f) == json_load(f)

\* FileHandler.load_data: FileNotFoundError and JSONDecodeError give [].
load_data(f) ==
    LET r == json_load(f)
    IN  IF ~r.ok /\ r.exc \in {"FileNotFoundError", "JSONDecodeError"}
        THEN Ok(<<>>) ELSE r

\* ------------------------------------------------------------- TaskManager

\* A faulty variant: the last task is left out of the data saved.
data_to_save_short(ts) == [i \in 1..(Len(ts) - 1) |-> to_dict(ts[i])]

\* [task.to_dict() for task in self.tasks]
data_to_save(ts) == [i \in 1..Len(ts) |-> to_dict(ts[i])]

\* TaskManager.__init__ and load_tasks on day `now`: the task list, or the
\* exception create_task_from_dict raises on the first document it rejects.
load_tasks(f, now) ==
    LET loaded == load_data(f)
        loaded_dicts == loaded.val
        made == [i \in 1..Len(loaded_dicts) |->
                    create_task_from_dict(loaded_dicts[i], now)]
        bad == {i \in 1..Len(loaded_dicts) : ~made[i].ok}
    IN  IF ~loaded.ok THEN loaded
        ELSE IF loaded_dicts = <<>> THEN Ok(<<>>)
        ELSE IF bad # {} THEN made[CHOOSE i \in bad : \A j \in bad : i <= j]
        ELSE Ok([i \in 1..Len(loaded_dicts) |-> made[i].val])

\* self.tasks.append(task_object)
appended(ts, task_object) == Append(ts, task_object)

\* for task in self.tasks: if task.name == task_name: the index found, or 0.
RECURSIVE found(_, _, _)
found(ts, task_name, i) ==
    IF i > Len(ts) THEN 0
    ELSE IF ts[i].name = task_name THEN i
    ELSE found(ts, task_name, i + 1)

\* A faulty variant: only the first task of that name is removed (list.remove).
kept_first(ts, task_name) ==
    LET i == found(ts, task_name, 1)
    IN  IF i = 0 THEN ts ELSE SubSeq(ts, 1, i - 1) \o SubSeq(ts, i + 1, Len(ts))

\* [task for task in self.tasks if task.name != task_name]
RECURSIVE kept(_, _)
kept(ts, task_name) ==
    IF ts = <<>> THEN <<>>
    ELSE IF Head(ts).name # task_name
         THEN <<Head(ts)>> \o kept(Tail(ts), task_name)
         ELSE kept(Tail(ts), task_name)

\* A faulty variant: the loop goes on after the first match and completes every task
\* of that name.
completed_all(ts, task_name) ==
    [i \in 1..Len(ts) |->
        IF ts[i].name = task_name THEN [ts[i] EXCEPT !.status = "Complete"]
        ELSE ts[i]]

\* task.status = "Complete" on the task found
completed(ts, task_name) ==
    LET i == found(ts, task_name, 1)
    IN  IF i = 0 THEN ts ELSE [ts EXCEPT ![i].status = "Complete"]

\* ------------------------------------------------------------------- state

VARIABLES
    today,   \* date.today(), as an index into Days
    file,    \* tasks.json
    pc,      \* per session: "none" (no TaskManager in the session state),
             \* "idle", or "dump" (inside save_data, the file opened for writing)
    tasks,   \* per session: TaskManager.tasks
    buf,     \* per session: the data handed to save_data, not yet written
    res,     \* per session: the latest call on the manager and how it ended
    old,     \* the latest call of all: its session, and what it started from
    nfaults, \* the storage faults so far (failed opens, failed writes, crashes)
    quiet,   \* per session: no write was open when its manager read the file
    lastw,   \* the session whose write completed last, and whether that write
             \* ran alone (no other write open or completed since its open)
    codec    \* the record, its dict and the decoded record of the codec run

vars == <<today, file, pc, tasks, buf, res, old, nfaults, quiet, lastw, codec>>

\* The latest call of a session: op(name), and out: "pending", the value
\* returned ("None", "True", "False"), "raised" or "crashed".
Call(op, name, out) == [op |-> op, name |-> name, out |-> out]

NoCall == Call("none", "", "None")

\* What the latest call started from: the task passed (add), the collection
\* `pre` and the file `fpre` before it, and the data it hands to save_data.
Snap(m, task, pre, fpre, data) ==
    [by |-> m, task |-> task, pre |-> pre, fpre |-> fpre, data |-> data]

NoSnap == Snap(0, <<>>, <<>>, NoFile, <<>>)

CodecOff == [step |-> "off", r |-> <<>>, enc |-> <<>>, dec |-> <<>>]

\* A document written without the optional keys "type" and "reminder_duration".
LegacyDoc ==
    [name |-> "a", description |-> "", status |-> "Pending",
     due_date |-> strftime(<<2025, 3, 1>>), created_date |-> strftime(Days[1])]

\* A document without the key "name".
BadDoc ==
    [type |-> "WorkTask", description |-> "", status |-> "Pending",
     due_date |-> strftime(<<2025, 3, 1>>), reminder_duration |-> <<0>>,
     created_date |-> strftime(Days[1]), priority |-> "High"]

InitFiles ==
    {NoFile, Unparseable(5), Text(<<>>), Text(<<LegacyDoc>>), Text(<<BadDoc>>)}

Init ==
    /\ today = 1
    /\ file \in InitFiles
    /\ pc = [m \in Sessions |-> "none"]
    /\ tasks = [m \in Sessions |-> <<>>]
    /\ buf = [m \in Sessions |-> <<>>]
    /\ res = [m \in Sessions |-> NoCall]
    /\ old = NoSnap
    /\ nfaults = 0
    /\ quiet = [m \in Sessions |-> TRUE]
    /\ lastw = [by |-> 0, alone |-> TRUE]
    /\ codec = CodecOff

\* ----------------------------------------------------------------- actions

\* if 'task_manager' not in st.session_state: TaskManager()
Construct(m) ==
    /\ pc[m] = "none"
    /\ LET r == load_tasks(file, today)
       IN  IF r.ok
           THEN /\ tasks' = [tasks EXCEPT ![m] = r.val]
                /\ pc' = [pc EXCEPT ![m] = "idle"]
                /\ res' = [res EXCEPT ![m] = Call("construct", "", "None")]
           ELSE /\ UNCHANGED <<tasks, pc>>
                /\ res' = [res EXCEPT ![m] = Call("construct", "", "raised")]
    /\ old' = Snap(m, <<>>, <<>>, file, <<>>)
    /\ quiet' = [quiet EXCEPT ![m] = \A k \in Sessions \ {m} : pc[k] # "dump"]
    /\ UNCHANGED <<today, file, buf, nfaults, lastw, codec>>

\* A faulty variant: the change to the collection is undone when open raises.
save_tasks_rollback(m, new, op, name, task, faults) ==
    \E opened \in (IF faults /\ nfaults < MaxFaults THEN BOOLEAN ELSE {TRUE}) :
        /\ tasks' = [tasks EXCEPT ![m] = IF opened THEN new ELSE tasks[m]]
        /\ IF opened
           THEN /\ file' = OpenW(file)
                /\ pc' = [pc EXCEPT ![m] = "dump"]
                /\ buf' = [buf EXCEPT ![m] = data_to_save(new)]
                /\ res' = [res EXCEPT ![m] = Call(op, name, "pending")]
           ELSE /\ UNCHANGED <<file, pc, buf>>
                /\ res' = [res EXCEPT ![m] = Call(op, name, "raised")]
        /\ old' = Snap(m, task, tasks[m], file, data_to_save(new))
        /\ nfaults' = IF opened THEN nfaults ELSE nfaults + 1
        /\ UNCHANGED <<today, quiet, lastw, codec>>

\* save_tasks up to open(filename, 'w') in save_data, the collection already
\* changed to `new`: the file is truncated, or (faults) open raises OSError.
save_tasks(m, new, op, name, task, faults) ==
    \E opened \in (IF faults /\ nfaults < MaxFaults THEN BOOLEAN ELSE {TRUE}) :
        /\ tasks' = [tasks EXCEPT ![m] = new]
        /\ IF opened
           THEN /\ file' = OpenW(file)
                /\ pc' = [pc EXCEPT ![m] = "dump"]
                /\ buf' = [buf EXCEPT ![m] = data_to_save(new)]
                /\ res' = [res EXCEPT ![m] = Call(op, name, "pending")]
           ELSE /\ UNCHANGED <<file, pc, buf>>
                /\ res' = [res EXCEPT ![m] = Call(op, name, "raised")]
        /\ old' = Snap(m, task, tasks[m], file, data_to_save(new))
        /\ nfaults' = IF opened THEN nfaults ELSE nfaults + 1
        /\ UNCHANGED <<today, quiet, lastw, codec>>

\* A call that returns False without saving.
ReturnFalse(m, op, name) ==
    /\ res' = [res EXCEPT ![m] = Call(op, name, "False")]
    /\ old' = Snap(m, <<>>, tasks[m], file, <<>>)
    /\ UNCHANGED <<today, file, pc, tasks, buf, nfaults, quiet, lastw, codec>>

add_task(m, task_object, faults) ==
    /\ pc[m] = "idle"
    /\ Len(tasks[m]) < MaxTasks
    /\ save_tasks(m, appended(tasks[m], task_object), "add", task_object.name,
                  <<task_object>>, faults)

delete_task(m, task_name, faults) ==
    /\ pc[m] = "idle"
    /\ LET initial_count == Len(tasks[m])
           new == kept(tasks[m], task_name)
       IN  IF Len(new) < initial_count
           THEN save_tasks(m, new, "delete", task_name, <<>>, faults)
           ELSE ReturnFalse(m, "delete", task_name)

complete_task(m, task_name, faults) ==
    /\ pc[m] = "idle"
    /\ IF found(tasks[m], task_name, 1) # 0
       THEN save_tasks(m, completed(tasks[m], task_name), "complete", task_name,
                       <<>>, faults)
       ELSE ReturnFalse(m, "complete", task_name)

\* The task form: a submitted form with a name builds the task of the chosen
\* type on the current day and adds it; one without a name adds nothing.
task_form(m, task_type, name, status, due_date, label, reminder_duration, faults) ==
    /\ name # ""
    /\ IF task_type = "Work Task"
       THEN add_task(m, WorkTask(name, "", status, due_date, label,
                                 reminder_duration, today), faults)
       ELSE add_task(m, PersonalTask(name, "", status, due_date, label,
                                     reminder_duration, today), faults)

\* json.dump and the close of the handle complete.
save_data(m) ==
    /\ pc[m] = "dump"
    /\ file' = WriteClose(file, buf[m])
    /\ pc' = [pc EXCEPT ![m] = "idle"]
    /\ buf' = [buf EXCEPT ![m] = <<>>]
    /\ res' = [res EXCEPT ![m].out = IF res[m].op = "add" THEN "None" ELSE "True"]
    /\ lastw' = [by |-> m,
                 alone |-> file.len = 0 /\ \A k \in Sessions \ {m} : pc[k] # "dump"]
    /\ UNCHANGED <<today, tasks, old, nfaults, quiet, codec>>

\* The text a write leaves when it stops early: nothing, or all but the end.
PartLens(data) == {0, JsonLen(data) - 1}

\* json.dump or the close raises OSError (the disk is full).
WriteFails(m) ==
    /\ pc[m] = "dump"
    /\ nfaults < MaxFaults
    /\ nfaults' = nfaults + 1
    /\ \E k \in PartLens(buf[m]) : file' = WritePart(file, buf[m], k)
    /\ pc' = [pc EXCEPT ![m] = "idle"]
    /\ buf' = [buf EXCEPT ![m] = <<>>]
    /\ res' = [res EXCEPT ![m].out = "raised"]
    /\ UNCHANGED <<today, tasks, old, quiet, lastw, codec>>

\* The process dies inside save_data; the session and its manager are gone.
Crash(m) ==
    /\ pc[m] = "dump"
    /\ nfaults < MaxFaults
    /\ nfaults' = nfaults + 1
    /\ \E k \in PartLens(buf[m]) : file' = WritePart(file, buf[m], k)
    /\ pc' = [pc EXCEPT ![m] = "none"]
    /\ buf' = [buf EXCEPT ![m] = <<>>]
    /\ tasks' = [tasks EXCEPT ![m] = <<>>]
    /\ res' = [res EXCEPT ![m].out = "crashed"]
    /\ UNCHANGED <<today, old, quiet, lastw, codec>>

\* The session ends between calls; the next one constructs a new manager.
SessionEnd(m) ==
    /\ pc[m] = "idle"
    /\ pc' = [pc EXCEPT ![m] = "none"]
    /\ tasks' = [tasks EXCEPT ![m] = <<>>]
    /\ res' = [res EXCEPT ![m] = NoCall]
    /\ old' = IF old.by = m THEN NoSnap ELSE old
    /\ UNCHANGED <<today, file, buf, nfaults, quiet, lastw, codec>>

\* Midnight: date.today() moves on.
Tick ==
    /\ today < Len(Days)
    /\ today' = today + 1
    /\ UNCHANGED <<file, pc, tasks, buf, res, old, nfaults, quiet, lastw, codec>>

\* ----------------------------------------------------------- specification

\* What callers pass: the form's fields (type, name, label) and task names.
FormInputs ==
    {<<"Work Task", "a", "High">>, <<"Personal Task", "b", "Hobby">>,
     <<"Work Task", "", "Low">>}

CallNames == Names

\* One session, as the program expects.
Step(m) ==
    \/ Construct(m)
    \/ \E f \in FormInputs :
          task_form(m, f[1], f[2], "Pending", <<2025, 3, 1>>, f[3], <<0>>, TRUE)
    \/ \E n \in CallNames : delete_task(m, n, TRUE)
    \/ \E n \in CallNames : complete_task(m, n, TRUE)
    \/ save_data(m)
    \/ WriteFails(m)
    \/ Crash(m)
    \/ SessionEnd(m)

Next == Step(1) \/ Tick

Spec == Init /\ [][Next]_vars

\* Two sessions on the same file, their calls and writes interleaved; no
\* storage fault and no clock step.
StoredDoc == to_dict(WorkTask("a", "", "Pending", <<2025, 3, 1>>, "High", <<0>>, 1))

TwoInputs == {<<"Personal Task", "b", "Hobby">>}

InitTwo ==
    /\ today = 1
    /\ file \in {Text(<<>>), Text(<<StoredDoc>>)}
    /\ pc = [m \in Sessions |-> "none"]
    /\ tasks = [m \in Sessions |-> <<>>]
    /\ buf = [m \in Sessions |-> <<>>]
    /\ res = [m \in Sessions |-> NoCall]
    /\ old = NoSnap
    /\ nfaults = 0
    /\ quiet = [m \in Sessions |-> TRUE]
    /\ lastw = [by |-> 0, alone |-> TRUE]
    /\ codec = CodecOff

StepTwo(m) ==
    \/ Construct(m)
    \/ \E f \in TwoInputs :
          task_form(m, f[1], f[2], "Pending", <<2025, 3, 1>>, f[3], <<0>>, FALSE)
    \/ \E n \in CallNames : delete_task(m, n, FALSE)
    \/ \E n \in CallNames : complete_task(m, n, FALSE)
    \/ save_data(m)

NextTwo == \E m \in Sessions : StepTwo(m)

SpecTwo == InitTwo /\ [][NextTwo]_vars

\* The codec alone: a record of any variant built on some day, encoded, and
\* decoded on that day or a later one.
Descriptions == {"", "d"}

Labels == {"High", "Low"}

Records(now) ==
    {Task(n, de, s, du, re, now) :
        n \in Names, de \in Descriptions, s \in StatusOptions,
        du \in DueDates, re \in Reminders}
    \cup {WorkTask(n, de, s, du, la, re, now) :
        n \in Names, de \in Descriptions, s \in StatusOptions,
        du \in DueDates, la \in Labels, re \in Reminders}
    \cup {PersonalTask(n, de, s, du, la, re, now) :
        n \in Names, de \in Descriptions, s \in StatusOptions,
        du \in DueDates, la \in Labels, re \in Reminders}

InitCodec ==
    /\ today \in 1..Len(Days)
    /\ file = NoFile
    /\ pc = [m \in Sessions |-> "none"]
    /\ tasks = [m \in Sessions |-> <<>>]
    /\ buf = [m \in Sessions |-> <<>>]
    /\ res = [m \in Sessions |-> NoCall]
    /\ old = NoSnap
    /\ nfaults = 0
    /\ quiet = [m \in Sessions |-> TRUE]
    /\ lastw = [by |-> 0, alone |-> TRUE]
    /\ \E r \in Records(today) :
          codec = [step |-> "made", r |-> r, enc |-> <<>>, dec |-> <<>>]

Encode ==
    /\ codec.step = "made"
    /\ codec' = [codec EXCEPT !.step = "encoded", !.enc = <<to_dict(codec.r)>>]
    /\ UNCHANGED <<today, file, pc, tasks, buf, res, old, nfaults, quiet, lastw>>

Decode ==
    /\ codec.step = "encoded"
    /\ codec' = [codec EXCEPT !.step = "decoded",
                              !.dec = <<create_task_from_dict(codec.enc[1], today)>>]
    /\ UNCHANGED <<today, file, pc, tasks, buf, res, old, nfaults, quiet, lastw>>

NextCodec == Encode \/ Decode \/ Tick

SpecCodec == InitCodec /\ [][NextCodec]_vars

\* ------------------------------------------------------------------ claims

Managers == {m \in Sessions : pc[m] # "none"}

\* The sessions whose latest call is the latest call of all.
Latest == {m \in Managers : old.by = m}

\* The file holds exactly the dicts of the tasks of ts, one per task, in order.
Holds(f, ts) ==
    /\ f.exists /\ f.json
    /\ Len(f.docs) = Len(ts)
    /\ \A i \in 1..Len(ts) : f.docs[i] = to_dict(ts[i])

Mutations == {"add", "delete", "complete"}

\* The positions of ts whose task is named n.
Hits(ts, n) == {i \in 1..Len(ts) : ts[i].name = n}

First(S) == CHOOSE i \in S : \A j \in S : i <= j

\* C1: after any sequence of add, delete and complete whose writes all
\* succeeded, a fresh manager constructed from the file has the same task list,
\* field for field and in the same order.
C1_ReloadEqual ==
    \A m \in Managers :
        (pc[m] = "idle" /\ nfaults = 0 /\ res[m].op \in Mutations)
            => load_tasks(file, today) = Ok(tasks[m])

\* C3: after an add, and after a delete or complete that returned True, the
\* file holds exactly the encoding of the manager's collection; a call that
\* returns False keeps file and memory in agreement if they agreed before.
C3_ImmediatePersistence ==
    \A m \in Managers :
        /\ (res[m].op \in Mutations /\ res[m].out \in {"None", "True"})
              => Holds(file, tasks[m])
        /\ (res[m].op \in Mutations /\ res[m].out = "False"
              /\ old.by = m /\ Holds(old.fpre, old.pre))
              => Holds(file, tasks[m])

C3_Witness ==
    \E m \in Latest :
        /\ res[m].op = "delete" /\ res[m].out = "True"
        /\ Len(tasks[m]) = 1 /\ Len(old.pre) = 2
        /\ Holds(file, tasks[m])

\* C4: every task in the collection has a non-empty name and no two tasks in
\* the collection have the same name.
C4_UniqueNames ==
    \A m \in Managers :
        /\ \A i \in 1..Len(tasks[m]) : tasks[m][i].name # ""
        /\ \A i, j \in 1..Len(tasks[m]) :
              i # j => tasks[m][i].name # tasks[m][j].name

\* C5: complete(name) sets the status of the first task of that name to
\* Complete and changes nothing else (later tasks of that name, order and
\* length included), and once the write has completed the collection is
\* persisted and True is returned; with no task of that name it returns False,
\* changes nothing and leaves the file as it was.
C5_Complete ==
    \A m \in Latest :
        res[m].op = "complete" =>
            LET pre == old.pre
                post == tasks[m]
                hits == Hits(pre, res[m].name)
            IN  IF hits = {}
                THEN res[m].out = "False" /\ post = pre /\ file = old.fpre
                ELSE /\ res[m].out # "False"
                     /\ Len(post) = Len(pre)
                     /\ \A i \in 1..Len(pre) :
                          IF i = First(hits)
                          THEN /\ post[i].status = "Complete"
                               /\ [post[i] EXCEPT !.status = pre[i].status] = pre[i]
                          ELSE post[i] = pre[i]
                     /\ res[m].out \in {"pending", "True", "raised"}
                     /\ (pc[m] = "idle" /\ res[m].out # "raised") =>
                           (res[m].out = "True" /\ Holds(file, post))

C5_Witness ==
    \E m \in Latest :
        /\ res[m].op = "complete" /\ res[m].out = "True"
        /\ Len(old.pre) = 2
        /\ old.pre[1].name = res[m].name /\ old.pre[2].name = res[m].name
        /\ old.pre[1].status = "Pending" /\ tasks[m][1].status = "Complete"
        /\ tasks[m][2].status = "Pending"

C8_CrashSafe ==
    \A m \in Sessions :
        (res[m].out = "crashed" /\ old.by = m) =>
            load_data(file).val \in {load_data(old.fpre).val, old.data}

\* C10: when the write fails during add, delete or complete, the error reaches
\* the caller and the change made in memory stays: the task appended, the
\* tasks removed, the status set; the collection then differs from the stored
\* one.
C10_NoRollback ==
    \A m \in Latest :
        (res[m].op \in Mutations /\ res[m].out = "raised") =>
            LET pre == old.pre
                post == tasks[m]
                n == res[m].name
            IN  /\ pc[m] = "idle"
                /\ res[m].op = "add" =>
                      post = pre \o old.task
                /\ res[m].op = "delete" =>
                      /\ Hits(post, n) = {}
                      /\ Len(post) < Len(pre)
                /\ res[m].op = "complete" =>
                      /\ Hits(pre, n) # {}
                      /\ post[First(Hits(pre, n))].status = "Complete"
                /\ (Holds(old.fpre, pre) /\ post # pre) => ~Holds(file, post)

C10_Witness ==
    \E m \in Latest :
        /\ res[m].op = "complete" /\ res[m].out = "raised"
        /\ Holds(old.fpre, old.pre)
        /\ old.pre[1].status = "Pending"
        /\ tasks[m][1].status = "Complete"
        /\ file = old.fpre

\* C2: for every valid record r of each variant, create_task_from_dict of
\* r.to_dict() is a record of the same variant equal to r in every field,
\* created date included, whatever the day of decoding.
C2_RoundTrip ==
    codec.step = "decoded" => codec.dec[1] = Ok(codec.r)

\* C9 as stated: once two managers have each mutated and persisted, in any
\* interleaving, the file holds exactly the collection of the one that wrote
\* last, and no call raised.
BothPersisted ==
    /\ \A m \in Sessions :
          pc[m] = "idle" /\ res[m].op \in Mutations /\ res[m].out \in {"None", "True"}
    /\ lastw.by \in Sessions

====
